---- MODULE Spec2Model ----
(***************************************************************************)
(* State-machine model of the streaming decryption core of gopenpgp:       *)
(*   crypto/decryption_core.go            decryptStream,                   *)
(*       decryptStreamWithSession, decryptStreamWithSessionAndParse,       *)
(*       decryptStreamWithSessionKey, decryptStreamAndVerifyDetached,      *)
(*       createPasswordPrompt                                              *)
(*   crypto/decryption_handle_builder.go  DecryptionHandleBuilder          *)
(*                                                                         *)
(* A packet stream is the sequence of packets that successive reads of one *)
(* forward-only reader yield; a reader is a position in that sequence and  *)
(* is never moved back.                                                    *)
(***************************************************************************)
EXTENDS Integers, Sequences, FiniteSets, TLC

\* ------------------------------------------------------------------ bounds
MaxStream == 3
MaxCands == 2
MaxDetStream == 3
MaxSigs == 2
MaxCalls == 4
MaxSetters == 3
MaxBuilds == 2
MaxPrompts == 2
MaxPlain == 3
MaxSpare == 1

\* ------------------------------------------------------------- Go values
\* A nil pointer, slice, interface or function value.
Nil == [nil |-> TRUE]

\* A non-nil byte slice, a non-nil key ring, a non-nil pointer to a value.
Bytes(x) == [bytes |-> x]
Ring(es) == [entities |-> es]
Ptr(v) == [val |-> v]

\* The nil error. An error is the sequence of its messages, outermost first.
NoErr == << >>

\* errors.New(msg)
ErrNew(msg) == << msg >>

\* errors.Wrap(err, msg) of github.com/pkg/errors: nil when err is nil.
ErrWrap(e, msg) == IF e = NoErr THEN NoErr ELSE << msg >> \o e

\* Sequences over S of length at most n.
SeqUpTo(S, n) == UNION { [1..k -> S] : k \in 0..n }

\* ---------------------------------------------------------------- packets
KeyPacketKinds == {"EncryptedKey", "SymmetricKeyEncrypted"}
DataPacketKinds == {"SymmetricallyEncrypted", "AEADEncrypted"}

\* key: the session key that decrypts a data packet; cred: the entity or the
\* password a key-exchange packet is wrapped for.
Pkt(kind, key, cred) == [kind |-> kind, key |-> key, cred |-> cred]

PKESK == Pkt("EncryptedKey", "none", "e1")
SKESK == Pkt("SymmetricKeyEncrypted", "none", "pw1")
SEIPD1 == Pkt("SymmetricallyEncrypted", "k1", "none")
SEIPD2 == Pkt("SymmetricallyEncrypted", "k2", "none")
AEAD2 == Pkt("AEADEncrypted", "k2", "none")
Literal == Pkt("LiteralData", "none", "none")

\* The cipher id that is not set (packet.CipherFunction zero value).
ZeroCipher == "unset"

\* A session key candidate: SessionKey{Key, Algo, v6}.
SK(key, algo, v6) == [Key |-> key, Algo |-> algo, v6 |-> v6]

\* A faulty variant of PacketsNext: the packet is returned but the reader
\* is left where it was.
PacketsNextSamePosition(s, p) ==
  IF p >= Len(s)
  THEN [err |-> << "EOF" >>, pkt |-> Nil, pos |-> p]
  ELSE [err |-> NoErr, pkt |-> s[p + 1], pos |-> p]

\* ------------------------------------------------- packet reader (library)
\* packet.NewReader(messageReader).Next() with the reader at position p: the
\* next packet and the advanced position, or a read error at the end.
PacketsNext(s, p) ==
  IF p >= Len(s)
  THEN [err |-> << "EOF" >>, pkt |-> Nil, pos |-> p]
  ELSE [err |-> NoErr, pkt |-> s[p + 1], pos |-> p + 1]

\* A faulty variant of PacketCase: an unexpected packet is skipped like a key packet.
PacketCaseSkipUnknown(p) ==
  IF p.kind \in DataPacketKinds THEN "data" ELSE "key"

\* The type switch of decryptStreamWithSessionKey.
PacketCase(p) ==
  IF p.kind \in KeyPacketKinds THEN "key"
  ELSE IF p.kind \in DataPacketKinds THEN "data"
  ELSE "default"

\* SessionKey.GetCipherFunc: the cipher id of the candidate's algorithm name.
GetCipherFunc(sk) ==
  IF sk.Algo = "aes256"
  THEN [dc |-> "aes256", err |-> NoErr]
  ELSE [dc |-> ZeroCipher, err |-> << "gopenpgp: unsupported cipher function" >>]

\* EncryptedDataPacket.Decrypt(dc, key): an integrity-checked decryption that
\* succeeds only with the packet's key; an AEAD packet names its own cipher,
\* a version 1 symmetrically encrypted packet needs the caller's.
DecryptOk(p, dc, key) ==
  /\ key = p.key
  /\ (p.kind = "AEADEncrypted" \/ dc # ZeroCipher)

\* A faulty variant of CipherFor: the cipher function is asked of a v6 key
\* too.
CipherForAnyKey(sessionKey) == GetCipherFunc(sessionKey)

\* var dc packet.CipherFunction; if !sessionKey.v6 { dc, err =
\* sessionKey.GetCipherFunc() }: the cipher id Decrypt is given, or the error.
CipherFor(sessionKey) ==
  IF sessionKey.v6 THEN [dc |-> ZeroCipher, err |-> NoErr]
  ELSE GetCipherFunc(sessionKey)

\* One iteration of the loop of decryptStreamWithSessionKey on the reader of
\* stream `name` (contents s) at position p. ctl says how the iteration
\* ends: "continue" (next iteration), "break" (a decrypted stream is
\* returned) or "return" (an error is returned); tried lists the Decrypt
\* call made, if any.
SessionKeyStep(sessionKey, name, s, p) ==
  LET n == PacketsNext(s, p) IN
  IF n.err # NoErr
  THEN [ctl |-> "return", pos |-> n.pos, decrypted |-> Nil, tried |-> << >>,
        err |-> ErrWrap(n.err, "gopenpgp: unable to read symmetric packet")]
  ELSE IF PacketCase(n.pkt) = "key"
  THEN [ctl |-> "continue", pos |-> n.pos, decrypted |-> Nil, tried |-> << >>,
        err |-> NoErr]
  ELSE IF PacketCase(n.pkt) = "data"
  THEN LET cf == CipherFor(sessionKey)
           try == [stream |-> name, at |-> n.pos, dc |-> cf.dc, key |-> sessionKey.Key]
       IN
       IF cf.err # NoErr
       THEN [ctl |-> "return", pos |-> n.pos, decrypted |-> Nil, tried |-> << >>,
             err |-> ErrWrap(cf.err, "gopenpgp: unable to decrypt with session key")]
       ELSE IF DecryptOk(n.pkt, cf.dc, sessionKey.Key)
       THEN [ctl |-> "break", pos |-> n.pos, tried |-> << try >>, err |-> NoErr,
             decrypted |-> [stream |-> name, at |-> n.pos, key |-> sessionKey.Key]]
       ELSE [ctl |-> "return", pos |-> n.pos, decrypted |-> Nil, tried |-> << try >>,
             err |-> ErrWrap(<< "incorrect key" >>, "gopenpgp: unable to decrypt symmetric packet")]
  ELSE [ctl |-> "return", pos |-> n.pos, decrypted |-> Nil, tried |-> << >>,
        err |-> ErrNew("gopenpgp: invalid packet type")]

\* ---------------------------------------------------------- password prompt
\* createPasswordPrompt(password): nil for a nil password, else a closure
\* with its own firstTimeCalled flag.
createPasswordPrompt(password) ==
  IF password = Nil THEN Nil
  ELSE [password |-> password, firstTimeCalled |-> TRUE]

\* A faulty variant of PromptInvoke: the flag is never cleared.
PromptInvokeNoFlip(p) ==
  [prompt |-> p, ret |-> p.password, err |-> NoErr]

\* One invocation of the closure returned by createPasswordPrompt: what it
\* returns and the closure's state afterwards.
PromptInvoke(p) ==
  IF p.firstTimeCalled
  THEN [prompt |-> [p EXCEPT !.firstTimeCalled = FALSE], ret |-> p.password,
        err |-> NoErr]
  ELSE [prompt |-> p, ret |-> Nil,
        err |-> ErrNew("gopenpgp: wrong password in symmetric decryption")]

\* ------------------------------------------- openpgp.ReadMessage (library)
\* Entities that hold a private key; a verification key ring holds public
\* keys only.
PrivateEntities == {"e1", "e2"}

\* Index of the first packet of s, from i on, that is not a key-exchange
\* packet; Len(s) + 1 if there is none.
RECURSIVE FirstNonKey(_, _)
FirstNonKey(s, i) ==
  IF i > Len(s) THEN i
  ELSE IF s[i].kind \in KeyPacketKinds THEN FirstNonKey(s, i + 1)
  ELSE i

\* The library asks the prompt for a password until one unlocks a symmetric
\* key-exchange packet or the prompt fails; log lists the invocations.
RECURSIVE AskPassword(_, _, _)
AskPassword(creds, p, log) ==
  LET r == PromptInvoke(p)
      l == Append(log, [ret |-> r.ret, err |-> r.err])
  IN IF r.err # NoErr THEN [err |-> r.err, prompt |-> r.prompt, log |-> l]
     ELSE IF r.ret.bytes \in creds THEN [err |-> NoErr, prompt |-> r.prompt, log |-> l]
     ELSE AskPassword(creds, r.prompt, l)

\* Unlocking of the packet stream s by ReadMessage(s, entries, prompt,
\* config): the walk over the key-exchange packets up to the first
\* encrypted-data packet. at is the index of the data packet unlocked (0 on
\* failure), prompt the prompt closure afterwards, log its invocations.
ReadMessageUnlock(s, entries, prompt, config) ==
  LET d == FirstNonKey(s, 1)
      fail(e) == [err |-> e, at |-> 0, prompt |-> prompt, log |-> << >>]
      byKey == \E i \in 1..(d - 1) :
                 /\ s[i].kind = "EncryptedKey"
                 /\ s[i].cred \in PrivateEntities
                 /\ \E j \in 1..Len(entries) : entries[j] = s[i].cred
      pws == { s[i].cred : i \in { j \in 1..(d - 1) : s[j].kind = "SymmetricKeyEncrypted" } }
  IN IF d > Len(s) THEN fail(<< "openpgp: unexpected EOF" >>)
     ELSE IF s[d].kind \notin DataPacketKinds
     THEN fail(<< "openpgp: malformed message: unexpected packet" >>)
     ELSE IF config.CheckPacketSequence /\ Len(s) > d
     THEN fail(<< "openpgp: malformed message: packet sequence" >>)
     ELSE IF byKey THEN [err |-> NoErr, at |-> d, prompt |-> prompt, log |-> << >>]
     ELSE IF pws # {} /\ prompt # Nil
     THEN LET a == AskPassword(pws, prompt, << >>) IN
          [err |-> a.err, at |-> IF a.err = NoErr THEN d ELSE 0,
           prompt |-> a.prompt, log |-> a.log]
     ELSE fail(<< "openpgp: incorrect key" >>)

\* Signature types of the signature candidates of a message.
SigTypes == {"binary", "text"}

\* LiteralData headers: file name, modification time, binary flag.
Literals ==
  { [FileName |-> "a.txt", Time |-> 1, IsBinary |-> TRUE],
    [FileName |-> "b.txt", Time |-> 2, IsBinary |-> FALSE] }

\* What an encrypted-data packet decrypts to: packets that parse (ok) to a
\* literal header and the types of the embedded signatures, or not.
Plaintexts ==
  { [ok |-> FALSE, lit |-> Nil, sigs |-> << >>] } \cup
  { [ok |-> TRUE, lit |-> l, sigs |-> g] : l \in Literals, g \in SeqUpTo(SigTypes, MaxSigs) }

\* The MessageDetails ReadMessage returns for a message whose data packet
\* (index at of stream name, session key key) decrypted to plaintext c.
MessageDetails(name, at, key, config, c) ==
  [IsEncrypted |-> TRUE,
   IsSigned |-> Len(c.sigs) > 0,
   SignatureCandidates |-> c.sigs,
   LiteralData |-> c.lit,
   SessionKey |-> IF config.CacheSessionKey THEN key ELSE Nil,
   UnverifiedBody |-> [stream |-> name, at |-> at]]

\* openpgp.ReadMessage(s, entries, prompt, config) on stream name, whose
\* data packet decrypts to c: an error and no details, or the details.
ReadMessage(name, s, entries, prompt, config, c) ==
  LET u == ReadMessageUnlock(s, entries, prompt, config) IN
  IF u.err # NoErr
  THEN [err |-> u.err, md |-> Nil, prompt |-> u.prompt, log |-> u.log, opened |-> FALSE]
  ELSE IF ~c.ok
  THEN [err |-> << "openpgp: invalid data" >>, md |-> Nil, prompt |-> u.prompt,
        log |-> u.log, opened |-> TRUE]
  ELSE [err |-> NoErr, prompt |-> u.prompt, log |-> u.log, opened |-> TRUE,
        md |-> MessageDetails(name, u.at, Bytes(s[u.at].key), config, c)]

\* ------------------------------------------------------------------ state
VARIABLES
  fn,         \* the operation under way
  pc,         \* its control position
  dh,         \* the decryptionHandle (the request)
  msg,        \* the packets of the data stream and of the signature stream
  pos,        \* the position of each stream's forward-only reader
  cur,        \* the stream decryptStreamWithSessionAndParse is reading
  ci,         \* index of sessionKeyCandidate in the range loop (0 before it)
  skStart,    \* reader position at the entry of decryptStreamWithSessionKey
  decrypted,  \* the decrypted stream of the last attempt, or Nil
  err,        \* the err variable of the running function
  selected,   \* index of selectedSessionKey, 0 for nil
  attempts,   \* the Decrypt calls made so far
  plain,      \* what the unlocked data packet of each stream decrypted to
  md,         \* the MessageDetails obtained for each stream, or Nil
  cfg,        \* the packet.Config object of the private-key/password branch
  prompts,    \* the password prompt closures created, in creation order
  promptLog,  \* every prompt invocation: the closure and what it returned
  rmCalls,    \* the arguments of every openpgp.ReadMessage call
  ret,        \* what the operation returned
  bld,        \* the DecryptionHandleBuilder and the handles it allocated
  rt,         \* the round trip under way: what was encrypted, what was read back
  backing     \* the backing array of the slice dh.DecryptionKeyRing.entities

vars ==
  << fn, pc, dh, msg, pos, cur, ci, skStart, decrypted, err, selected,
     attempts, plain, md, cfg, prompts, promptLog, rmCalls, ret, bld, rt, backing >>

\* decryptionHandle{...}
Handle(dkr, vkr, sks, pw, vctx, dvt, dir, rsk, clock) ==
  [DecryptionKeyRing |-> dkr, VerifyKeyRing |-> vkr, SessionKeys |-> sks,
   Password |-> pw, VerificationContext |-> vctx,
   DisableVerifyTimeCheck |-> dvt, DisableIntendedRecipients |-> dir,
   RetrieveSessionKey |-> rsk, clock |-> clock]

\* The entities of a key ring, none for a nil ring.
Entities(ring) == IF ring = Nil THEN << >> ELSE ring.entities

\* packet.Config{}: the fields the code sets; an unset pointer field is Nil
\* and an unset CheckPacketSequence means the library's default, checking.
Config(cache, time) ==
  [CacheSessionKey |-> cache, Time |-> time, CheckPacketSequence |-> TRUE,
   CheckIntendedRecipients |-> Nil, KnownNotations |-> FALSE]

NoConfig == Nil

\* The backing array of a key ring's entity slice: its elements, then the
\* spare capacity, unused; a nil ring has none.
BackingArray(ring, spare) ==
  IF ring = Nil THEN << >>
  ELSE ring.entities \o [i \in 1..spare |-> "unused"]

\* append(s, xs...) for a slice s of length n over the array arr: the array
\* afterwards. With enough spare capacity the elements are written into arr
\* after the n-th; else a new array is allocated and arr is left alone.
AppendInPlace(arr, n, xs) ==
  IF n + Len(xs) <= Len(arr)
  THEN [i \in 1..Len(arr) |-> IF i > n /\ i <= n + Len(xs) THEN xs[i - n] ELSE arr[i]]
  ELSE arr
NoRoundTrip == Nil
NoReturn == [reader |-> Nil, err |-> NoErr, panic |-> FALSE, done |-> FALSE]
Return(reader, e) == [reader |-> reader, err |-> e, panic |-> FALSE, done |-> TRUE]
\* A nil pointer dereference: the call returns nothing.
Panic == [reader |-> Nil, err |-> NoErr, panic |-> TRUE, done |-> TRUE]

\* A faulty variant of NeedsSanitizeReader: the signature type is not looked at.
NeedsSanitizeReaderAnyType(m) ==
  /\ m.IsSigned
  /\ Len(m.SignatureCandidates) > 0

\* The condition under which the plaintext is wrapped in the sanitize reader.
NeedsSanitizeReader(m) ==
  /\ m.IsSigned
  /\ Len(m.SignatureCandidates) > 0
  /\ m.SignatureCandidates[Len(m.SignatureCandidates)] = "text"

\* &VerifyDataReader{...} as decryptStream and decryptStreamWithSession
\* build it.
VerifyDataReader(m, verifyTime) ==
  [details |-> m,
   internalReader |-> [sanitize |-> NeedsSanitizeReader(m), body |-> m.UnverifiedBody],
   verifyKeyRing |-> dh.VerifyKeyRing,
   verifyTime |-> verifyTime,
   disableTimeCheck |-> dh.DisableVerifyTimeCheck,
   readAll |-> FALSE,
   verificationContext |-> dh.VerificationContext]

\* ----------------------------------------------------------------- inputs
Candidates ==
  { SK("k1", "aes256", FALSE), SK("k2", "aes256", FALSE),
    SK("k2", "aes256", TRUE), SK("k1", "unknown", FALSE),
    SK("k2", "unknown", TRUE) }

SessionAlphabet == {PKESK, SKESK, SEIPD1, AEAD2, Literal}

FlagProfiles ==
  { [dir |-> FALSE, rsk |-> FALSE], [dir |-> TRUE, rsk |-> TRUE] }

SessionHandles ==
  { Handle(Nil, Ring(<< "v1" >>), sks, Nil, Nil, FALSE, f.dir, f.rsk, 10) :
      sks \in SeqUpTo(Candidates, MaxCands), f \in FlagProfiles }

NoBuilder == Nil

\* The variables an operation starts with, whatever the operation.
InitLocals ==
  /\ pos = [data |-> 0, sig |-> 0]
  /\ cur = "data"
  /\ ci = 0
  /\ skStart = 0
  /\ decrypted = Nil
  /\ err = NoErr
  /\ selected = 0
  /\ attempts = << >>
  /\ plain = [data |-> Nil, sig |-> Nil]
  /\ md = [data |-> Nil, sig |-> Nil]
  /\ cfg = NoConfig
  /\ rmCalls = << >>
  /\ ret = NoReturn
  /\ rt = NoRoundTrip

\* No prompt closure exists and no builder is in use when a decryption
\* operation is called.
InitDecryption ==
  /\ InitLocals
  /\ prompts = << >>
  /\ promptLog = << >>
  /\ bld = NoBuilder
  /\ backing \in { BackingArray(dh.DecryptionKeyRing, k) :
                      k \in IF fn = "decryptStream" THEN 0..MaxSpare ELSE {0} }

\* dh.decryptStreamWithSession(dataPacketReader) is called.
InitSession ==
  /\ fn = "decryptStreamWithSession"
  /\ pc = "range"
  /\ dh \in SessionHandles
  /\ msg \in [data : SeqUpTo(SessionAlphabet, MaxStream), sig : {<< >>}]
  /\ InitDecryption

\* --------------------------------- decryptStreamWithSessionAndParse, loop
\* for _, sessionKeyCandidate := range dh.SessionKeys: the next candidate is
\* taken and decryptStreamWithSessionKey is entered, or the range ends.
RangeNext ==
  /\ pc = "range"
  /\ IF ci < Len(dh.SessionKeys)
     THEN /\ ci' = ci + 1
          /\ skStart' = pos[cur]
          /\ pc' = "sk_loop"
     ELSE /\ pc' = "after_range"
          /\ UNCHANGED << ci, skStart >>
  /\ UNCHANGED << fn, dh, msg, pos, cur, decrypted, err, selected, attempts,
                  plain, md, cfg, prompts, promptLog, rmCalls, ret, bld, rt, backing >>

\* One iteration of the loop of decryptStreamWithSessionKey for the current
\* candidate; on return, decrypted and err receive the results.
SessionKeyLoop ==
  /\ pc = "sk_loop"
  /\ LET r == SessionKeyStep(dh.SessionKeys[ci], cur, msg[cur], pos[cur]) IN
       /\ pos' = [pos EXCEPT ![cur] = r.pos]
       /\ attempts' = attempts \o
            [i \in 1..Len(r.tried) |->
               [stream |-> r.tried[i].stream, at |-> r.tried[i].at,
                dc |-> r.tried[i].dc, key |-> r.tried[i].key,
                cand |-> ci, start |-> skStart]]
       /\ IF r.ctl = "continue"
          THEN /\ pc' = "sk_loop"
               /\ UNCHANGED << decrypted, err >>
          ELSE /\ pc' = "sk_ret"
               /\ decrypted' = r.decrypted
               /\ err' = r.err
  /\ UNCHANGED << fn, dh, msg, cur, ci, skStart, selected, plain, md, cfg,
                  prompts, promptLog, rmCalls, ret, bld, rt, backing >>

\* if err == nil { selectedSessionKey = sessionKeyCandidate; break }
RangeCheck ==
  /\ pc = "sk_ret"
  /\ IF err = NoErr
     THEN /\ selected' = ci
          /\ pc' = "after_range"
     ELSE /\ pc' = "range"
          /\ UNCHANGED selected
  /\ UNCHANGED << fn, dh, msg, pos, cur, ci, skStart, decrypted, err,
                  attempts, plain, md, cfg, prompts, promptLog, rmCalls, ret, bld, rt, backing >>

\* The packet.Config decryptStreamWithSessionAndParse builds.
SessionParseConfig ==
  [CacheSessionKey |-> FALSE, Time |-> dh.clock, CheckPacketSequence |-> FALSE,
   CheckIntendedRecipients |-> Ptr(~dh.DisableIntendedRecipients),
   KnownNotations |-> dh.VerificationContext # Nil]

\* A faulty variant of SelectedSessionKey: the details keep the session key
\* ReadMessage left in them.
SessionKeyOfDetails(m) == m.SessionKey

\* md.SessionKey = selectedSessionKey.Key
SelectedSessionKey(m) == Bytes(dh.SessionKeys[selected].Key)

\* What the decrypted packet may hold, by operation.
ParsePlaintexts ==
  IF fn = "decryptStreamAndVerifyDetached"
  THEN { c \in Plaintexts : c.sigs = << >> }
  ELSE IF rt # NoRoundTrip THEN { rt.written }
  ELSE Plaintexts

\* The rest of decryptStreamWithSessionAndParse: with no selected key the
\* wrapped err is returned; else the decrypted packet is parsed with
\* ReadMessage, c being what it holds, and the details are returned.
AfterRange ==
  /\ pc = "after_range"
  /\ pc' = "parse_ret"
  /\ IF selected = 0
     THEN /\ err' = ErrWrap(err, "gopenpgp: unable to decrypt message with session key")
          /\ md' = [md EXCEPT ![cur] = Nil]
          /\ UNCHANGED << plain, rmCalls >>
     ELSE \E c \in ParsePlaintexts :
          LET keyring == Entities(dh.VerifyKeyRing) \o Entities(dh.DecryptionKeyRing)
              config == SessionParseConfig
              m == MessageDetails(cur, decrypted.at, Bytes(decrypted.key), config, c)
          IN /\ plain' = [plain EXCEPT ![cur] = c]
             /\ rmCalls' = Append(rmCalls, [stream |-> cur, inner |-> TRUE,
                                            entries |-> keyring, prompt |-> 0,
                                            config |-> config])
             /\ IF ~c.ok
                THEN /\ err' = ErrWrap(<< "openpgp: invalid data" >>,
                                       "gopenpgp: unable to decode symmetric packet")
                     /\ md' = [md EXCEPT ![cur] = Nil]
                ELSE /\ err' = NoErr
                     /\ md' = [md EXCEPT ![cur] =
                                 [m EXCEPT !.SessionKey = SelectedSessionKey(m),
                                           !.UnverifiedBody = [check |-> decrypted,
                                                               body |-> m.UnverifiedBody]]]
  /\ UNCHANGED << fn, dh, msg, pos, cur, ci, skStart, decrypted, selected,
                  attempts, cfg, prompts, promptLog, ret, bld, rt, backing >>

\* ------------------------------------------------ decryptStreamWithSession
\* The caller's part once decryptStreamWithSessionAndParse has returned.
WithSessionReturn ==
  /\ fn = "decryptStreamWithSession"
  /\ pc = "parse_ret"
  /\ pc' = "done"
  /\ ret' = IF err # NoErr
            THEN Return(Nil, ErrWrap(err, "gopenpgp: error in reading message"))
            ELSE IF md.data = Nil THEN Panic
            ELSE Return(VerifyDataReader(md.data, dh.clock), err)
  /\ UNCHANGED << fn, dh, msg, pos, cur, ci, skStart, decrypted, err, selected,
                  attempts, plain, md, cfg, prompts, promptLog, rmCalls, bld, rt, backing >>

\* ------------------------------------------------------------ decryptStream
SKESK2 == Pkt("SymmetricKeyEncrypted", "none", "pw2")

KeysAlphabet == {PKESK, SKESK, SEIPD1, Literal}

\* The unlock sources of a request in private-key or password mode.
KeyCredentials ==
  { [ring |-> Ring(<< "e1" >>), pw |-> Nil], [ring |-> Ring(<< "e2" >>), pw |-> Nil],
    [ring |-> Nil, pw |-> Bytes("pw1")], [ring |-> Nil, pw |-> Bytes("pw2")] }

StreamHandles ==
  { Handle(k.ring, vk, << >>, k.pw, Nil, FALSE, f.dir, f.rsk, 10) :
      k \in KeyCredentials, vk \in {Nil, Ring(<< "v1" >>)}, f \in FlagProfiles }

\* dh.decryptStream(encryptedMessage) is called.
InitStream ==
  /\ fn = "decryptStream"
  /\ pc = "start"
  /\ dh \in StreamHandles
  /\ msg \in [data : SeqUpTo(KeysAlphabet, MaxStream), sig : {<< >>}]
  /\ InitDecryption

\* The entries and the config decryptStream hands to ReadMessage.
StreamEntries ==
  (IF dh.DecryptionKeyRing # Nil THEN dh.DecryptionKeyRing.entities ELSE << >>)
    \o Entities(dh.VerifyKeyRing)

StreamConfig ==
  [CacheSessionKey |-> dh.RetrieveSessionKey,
   Time |-> dh.clock,
   CheckPacketSequence |-> TRUE,
   CheckIntendedRecipients |->
     IF dh.DecryptionKeyRing # Nil THEN Ptr(~dh.DisableIntendedRecipients) ELSE Nil,
   KnownNotations |-> dh.VerificationContext # Nil]

\* The prompt log entries of one ReadMessage call.
Invocations(id, name, log) ==
  [i \in 1..Len(log) |->
     [prompt |-> id, stream |-> name, ret |-> log[i].ret, err |-> log[i].err]]

\* The one error decryptStream returns in password mode.
WrongPasswordOrMalformed ==
  ErrNew("gopenpgp: error in reading password protected message: wrong password or malformed message")

\* A faulty variant of StreamError: the error of ReadMessage is wrapped in
\* password mode too.
StreamErrorWrapped(keyMode, e) ==
  IF keyMode
  THEN ErrWrap(e, "gopenpgp: decrypting message with private keys failed")
  ELSE ErrWrap(e, "gopenpgp: error in reading password protected message")

\* The error decryptStream returns when ReadMessage returned e: e wrapped in
\* private-key mode, one fixed error in password mode.
StreamError(keyMode, e) ==
  IF keyMode
  THEN ErrWrap(e, "gopenpgp: decrypting message with private keys failed")
  ELSE WrongPasswordOrMalformed

\* decryptStream, whole: c is what the data packet decrypts to.
DecryptStream ==
  /\ fn = "decryptStream"
  /\ pc = "start"
  /\ pc' = "done"
  /\ \E c \in Plaintexts :
       LET keyMode == dh.DecryptionKeyRing # Nil
           prompt == IF keyMode THEN Nil ELSE createPasswordPrompt(dh.Password)
           id == IF prompt = Nil THEN 0 ELSE Len(prompts) + 1
           r == ReadMessage("data", msg.data, StreamEntries, prompt, StreamConfig, c)
       IN /\ cfg' = StreamConfig
          /\ rmCalls' = Append(rmCalls, [stream |-> "data", inner |-> FALSE,
                                         entries |-> StreamEntries, prompt |-> id,
                                         config |-> StreamConfig])
          /\ prompts' = IF prompt = Nil THEN prompts ELSE Append(prompts, r.prompt)
          /\ promptLog' = promptLog \o Invocations(id, "data", r.log)
          /\ plain' = [plain EXCEPT !.data = IF r.opened THEN c ELSE Nil]
          /\ md' = [md EXCEPT !.data = r.md]
          /\ IF r.err # NoErr
             THEN /\ err' = r.err
                  /\ ret' = Return(Nil, StreamError(keyMode, r.err))
             ELSE /\ err' = NoErr
                  /\ ret' = Return(VerifyDataReader(r.md, StreamConfig.Time), NoErr)
  /\ backing' = IF dh.DecryptionKeyRing # Nil /\ dh.VerifyKeyRing # Nil
                THEN AppendInPlace(backing, Len(dh.DecryptionKeyRing.entities),
                                   dh.VerifyKeyRing.entities)
                ELSE backing
  /\ UNCHANGED << fn, dh, msg, pos, cur, ci, skStart, decrypted, selected,
                  attempts, bld, rt >>

\* ------------------------------------------ decryptStreamAndVerifyDetached
DetachedSessionAlphabet == {PKESK, SEIPD1, SEIPD2, Literal}
DetachedKeysAlphabet == {PKESK, SKESK, SKESK2, SEIPD1, Literal}

DetachedCandidateLists ==
  { << SK("k1", "aes256", FALSE) >>, << SK("k2", "aes256", FALSE) >>,
    << SK("k1", "aes256", FALSE), SK("k2", "aes256", FALSE) >>,
    << SK("k2", "aes256", FALSE), SK("k1", "aes256", FALSE) >> }

DetachedHandles ==
  { Handle(Nil, Ring(<< "v1" >>), sks, Nil, Nil, FALSE, FALSE, FALSE, 10) :
      sks \in DetachedCandidateLists }
  \cup
  { Handle(k.ring, Ring(<< "v1" >>), << >>, k.pw, Nil, FALSE, f.dir, f.rsk, 10) :
      k \in KeyCredentials, f \in FlagProfiles }

\* What the data packet of a stream of a detached message decrypts to.
DetachedPlaintexts == { c \in Plaintexts : c.sigs = << >> }

\* dh.decryptStreamAndVerifyDetached(encryptedData, encryptedSignature) is
\* called.
InitDetached ==
  /\ fn = "decryptStreamAndVerifyDetached"
  /\ pc = "start"
  /\ dh \in DetachedHandles
  /\ LET A == IF Len(dh.SessionKeys) > 0 THEN DetachedSessionAlphabet
              ELSE DetachedKeysAlphabet
     IN msg \in [data : SeqUpTo(A, MaxDetStream), sig : SeqUpTo(A, MaxDetStream)]
  /\ InitDecryption

\* if len(dh.SessionKeys) > 0: decryptStreamWithSessionAndParse is entered
\* for the data stream.
DetachedSessionBegin ==
  /\ fn = "decryptStreamAndVerifyDetached"
  /\ pc = "start"
  /\ Len(dh.SessionKeys) > 0
  /\ pc' = "range"
  /\ cur' = "data"
  /\ UNCHANGED << fn, dh, msg, pos, ci, skStart, decrypted, err, selected,
                  attempts, plain, md, cfg, prompts, promptLog, rmCalls, ret, bld, rt, backing >>

\* The data stream's decryptStreamWithSessionAndParse has returned: its
\* error is returned, or the same function is entered for the signature
\* stream with its own locals.
DetachedSessionData ==
  /\ fn = "decryptStreamAndVerifyDetached"
  /\ pc = "parse_ret"
  /\ cur = "data"
  /\ IF err # NoErr
     THEN /\ ret' = Return(Nil, ErrWrap(err, "gopenpgp: error in reading data message"))
          /\ pc' = "done"
          /\ UNCHANGED << cur, ci, skStart, decrypted, err, selected >>
     ELSE /\ pc' = "range"
          /\ cur' = "sig"
          /\ ci' = 0
          /\ skStart' = 0
          /\ decrypted' = Nil
          /\ err' = NoErr
          /\ selected' = 0
          /\ UNCHANGED ret
  /\ UNCHANGED << fn, dh, msg, pos, attempts, plain, md, cfg, prompts,
                  promptLog, rmCalls, bld, rt, backing >>

\* The signature stream's decryptStreamWithSessionAndParse has returned.
DetachedSessionSig ==
  /\ fn = "decryptStreamAndVerifyDetached"
  /\ pc = "parse_ret"
  /\ cur = "sig"
  /\ IF err # NoErr
     THEN /\ ret' = Return(Nil, ErrWrap(err,
                      "gopenpgp: error in reading detached signature message"))
          /\ pc' = "done"
     ELSE /\ pc' = "verify"
          /\ UNCHANGED ret
  /\ UNCHANGED << fn, dh, msg, pos, cur, ci, skStart, decrypted, err, selected,
                  attempts, plain, md, cfg, prompts, promptLog, rmCalls, bld, rt, backing >>

\* The entries of the private-key/password branch.
DetachedEntries == Entities(dh.DecryptionKeyRing)

\* A faulty variant of DataStreamConfig: the config already has the relaxed
\* packet sequence setting meant for the signature stream.
DataStreamConfigRelaxed ==
  [Config(dh.RetrieveSessionKey, dh.clock) EXCEPT !.CheckPacketSequence = FALSE]

\* config := &packet.Config{CacheSessionKey, Time} as the data stream's
\* ReadMessage receives it.
DataStreamConfig == Config(dh.RetrieveSessionKey, dh.clock)

\* config.CheckPacketSequence = &checkPacketSequence (false): the same
\* config object, modified, as the signature stream's ReadMessage receives
\* it.
SigStreamConfig == [cfg EXCEPT !.CheckPacketSequence = FALSE]

\* A faulty variant of SigStreamPrompt: the data stream's prompt closure is used
\* again.
SigStreamPromptReused ==
  [id |-> Len(prompts),
   state |-> IF prompts = << >> THEN Nil ELSE prompts[Len(prompts)]]

\* prompt = createPasswordPrompt(dh.Password), the second time: a new
\* closure.
SigStreamPrompt ==
  [id |-> IF dh.Password = Nil THEN 0 ELSE Len(prompts) + 1,
   state |-> createPasswordPrompt(dh.Password)]

\* The prompts once closure p.id was left in state `after` by a call.
PromptsAfter(p, after) ==
  IF p.state = Nil THEN prompts
  ELSE IF p.id > Len(prompts) THEN Append(prompts, after)
  ELSE [prompts EXCEPT ![p.id] = after]

\* Private keys or password: the config, the entries, the first prompt and
\* ReadMessage on the data stream, c being what its data packet holds.
DetachedKeysData ==
  /\ fn = "decryptStreamAndVerifyDetached"
  /\ pc = "start"
  /\ Len(dh.SessionKeys) = 0
  /\ \E c \in DetachedPlaintexts :
       LET p == [id |-> IF dh.Password = Nil THEN 0 ELSE Len(prompts) + 1,
                 state |-> createPasswordPrompt(dh.Password)]
           r == ReadMessage("data", msg.data, DetachedEntries, p.state,
                            DataStreamConfig, c)
       IN /\ cfg' = DataStreamConfig
          /\ rmCalls' = Append(rmCalls, [stream |-> "data", inner |-> FALSE,
                                         entries |-> DetachedEntries, prompt |-> p.id,
                                         config |-> DataStreamConfig])
          /\ prompts' = PromptsAfter(p, r.prompt)
          /\ promptLog' = promptLog \o Invocations(p.id, "data", r.log)
          /\ plain' = [plain EXCEPT !.data = IF r.opened THEN c ELSE Nil]
          /\ md' = [md EXCEPT !.data = r.md]
          /\ err' = r.err
          /\ IF r.err # NoErr
             THEN /\ ret' = Return(Nil, ErrWrap(r.err, "gopenpgp: error in reading data message"))
                  /\ pc' = "done"
             ELSE /\ pc' = "keys_sig"
                  /\ UNCHANGED ret
  /\ UNCHANGED << fn, dh, msg, pos, cur, ci, skStart, decrypted, selected,
                  attempts, bld, rt, backing >>

\* The second prompt, the config change and ReadMessage on the signature
\* stream.
DetachedKeysSig ==
  /\ fn = "decryptStreamAndVerifyDetached"
  /\ pc = "keys_sig"
  /\ \E c \in DetachedPlaintexts :
       LET p == SigStreamPrompt
           r == ReadMessage("sig", msg.sig, DetachedEntries, p.state,
                            SigStreamConfig, c)
       IN /\ cfg' = SigStreamConfig
          /\ rmCalls' = Append(rmCalls, [stream |-> "sig", inner |-> FALSE,
                                         entries |-> DetachedEntries, prompt |-> p.id,
                                         config |-> SigStreamConfig])
          /\ prompts' = PromptsAfter(p, r.prompt)
          /\ promptLog' = promptLog \o Invocations(p.id, "sig", r.log)
          /\ plain' = [plain EXCEPT !.sig = IF r.opened THEN c ELSE Nil]
          /\ md' = [md EXCEPT !.sig = r.md]
          /\ err' = r.err
          /\ IF r.err # NoErr
             THEN /\ ret' = Return(Nil, ErrWrap(r.err,
                              "gopenpgp: error in reading detached signature message"))
                  /\ pc' = "done"
             ELSE /\ pc' = "verify"
                  /\ UNCHANGED ret
  /\ UNCHANGED << fn, dh, msg, pos, cur, ci, skStart, decrypted, selected,
                  attempts, bld, rt, backing >>

\* A faulty variant of DetachedDetails: the details are taken from the signature
\* stream.
DetachedDetailsFromSignature(details) ==
  [details EXCEPT !.LiteralData = md.sig.LiteralData,
                  !.SessionKey = md.sig.SessionKey]

\* sigVerifyReader.details.LiteralData = mdData.LiteralData and
\* sigVerifyReader.details.SessionKey = mdData.SessionKey
DetachedDetails(details) ==
  [details EXCEPT !.LiteralData = md.data.LiteralData,
                  !.SessionKey = md.data.SessionKey]

\* verifyingDetachedReader(data, signature, ...): a reader over the data
\* plaintext that verifies it against the signature payload.
VerifyingDetachedReader(data, signature, config) ==
  [details |-> [IsEncrypted |-> FALSE, IsSigned |-> TRUE,
                SignatureCandidates |-> << >>, LiteralData |-> Nil,
                SessionKey |-> Nil, UnverifiedBody |-> data],
   internalReader |-> [sanitize |-> FALSE, body |-> data],
   signature |-> signature,
   checkIntendedRecipients |-> config.CheckIntendedRecipients,
   verifyKeyRing |-> dh.VerifyKeyRing,
   verifyTime |-> dh.clock,
   disableTimeCheck |-> dh.DisableVerifyTimeCheck,
   readAll |-> FALSE,
   verificationContext |-> dh.VerificationContext]

\* The verifying reader is built over both plaintext streams (parses says
\* whether the signature payload yields a signature) and receives the
\* details of the data stream.
DetachedVerify ==
  /\ fn = "decryptStreamAndVerifyDetached"
  /\ pc = "verify"
  /\ pc' = "done"
  /\ \E parses \in BOOLEAN :
       LET config == [Config(FALSE, Nil) EXCEPT
                        !.CheckIntendedRecipients = Ptr(~dh.DisableIntendedRecipients)]
           reader == VerifyingDetachedReader(md.data.UnverifiedBody,
                                             md.sig.UnverifiedBody, config)
       IN ret' = IF ~parses
                 THEN Return(Nil, << "gopenpgp: verify signature reader failed" >>)
                 ELSE Return([reader EXCEPT !.details = DetachedDetails(reader.details)],
                             NoErr)
  /\ UNCHANGED << fn, dh, msg, pos, cur, ci, skStart, decrypted, err, selected,
                  attempts, plain, md, cfg, prompts, promptLog, rmCalls, bld, rt, backing >>

Init == InitSession \/ InitStream \/ InitDetached

Next ==
  \/ RangeNext
  \/ SessionKeyLoop
  \/ RangeCheck
  \/ AfterRange
  \/ WithSessionReturn
  \/ DecryptStream
  \/ DetachedSessionBegin
  \/ DetachedSessionData
  \/ DetachedSessionSig
  \/ DetachedKeysData
  \/ DetachedKeysSig
  \/ DetachedVerify

Spec == Init /\ [][Next]_vars

\* ------------------------------------------------ password prompt, alone

PromptPasswords == {Nil, Bytes("pw1"), Bytes("pw2")}

InitPrompt ==
  /\ fn = "createPasswordPrompt"
  /\ pc = "idle"
  /\ dh = Nil
  /\ msg = [data |-> << >>, sig |-> << >>]
  /\ InitLocals
  /\ backing = << >>
  /\ prompts = << >>
  /\ promptLog = << >>
  /\ bld = NoBuilder

\* createPasswordPrompt(password) is called and its result kept.
PromptCreate ==
  /\ fn = "createPasswordPrompt"
  /\ Len(prompts) < MaxPrompts
  /\ \E password \in PromptPasswords :
       prompts' = Append(prompts, createPasswordPrompt(password))
  /\ UNCHANGED << fn, pc, dh, msg, pos, cur, ci, skStart, decrypted, err,
                  selected, attempts, plain, md, cfg, promptLog, rmCalls, ret, bld, rt, backing >>

\* A prompt closure is invoked (a nil prompt cannot be).
PromptCall ==
  /\ fn = "createPasswordPrompt"
  /\ Len(promptLog) < MaxCalls
  /\ \E i \in 1..Len(prompts) :
       /\ prompts[i] # Nil
       /\ LET r == PromptInvoke(prompts[i]) IN
            /\ prompts' = [prompts EXCEPT ![i] = r.prompt]
            /\ promptLog' = Append(promptLog, [prompt |-> i, stream |-> "none",
                                               ret |-> r.ret, err |-> r.err])
  /\ UNCHANGED << fn, pc, dh, msg, pos, cur, ci, skStart, decrypted, err,
                  selected, attempts, plain, md, cfg, rmCalls, ret, bld, rt, backing >>

NextPrompt ==
  \/ PromptCreate
  \/ PromptCall

SpecPrompt == InitPrompt /\ [][NextPrompt]_vars

\* ------------------------------------------------- DecryptionHandleBuilder
\* Clocks: the builder's default clock and NewConstantClock(unixTime).
DefaultClock == [kind |-> "default", unix |-> 0]
ConstantClock(unixTime) == [kind |-> "constant", unix |-> unixTime]

\* defaultDecryptionHandle(clock): a handle with nothing set but the clock.
defaultDecryptionHandle(clock) ==
  [DecryptionKeyRing |-> Nil, VerifyKeyRing |-> Nil, SessionKey |-> Nil,
   Password |-> Nil, VerificationContext |-> Nil,
   DisableVerifyTimeCheck |-> FALSE, DisableIntendedRecipients |-> FALSE,
   RetrieveSessionKey |-> FALSE, clock |-> clock]

\* decryptionHandle.validate(): exactly one unlock source must be set.
validate(h) ==
  IF Cardinality({ f \in {"DecryptionKeyRing", "Password", "SessionKey"} : h[f] # Nil }) = 1
  THEN NoErr
  ELSE << "gopenpgp: no decryption key material provided" >>

\* KeyRing.AddKey(key): a locked private key is refused.
AddKeyErr(key) ==
  IF key = "locked" THEN << "gopenpgp: unable to add locked key to a keyring" >>
  ELSE NoErr

\* NewKeyRing(key) and keyRing.AddKey(key): the ring afterwards.
AddKey(ring, key) ==
  IF AddKeyErr(key) # NoErr THEN Ring(Entities(ring))
  ELSE Ring(Append(Entities(ring), key))

\* The draft: the handle dpb.handle points to.
Draft == bld.heap[bld.handle]

\* newDecryptionHandleBuilder(clock) has been called.
InitBuilder ==
  /\ fn = "DecryptionHandleBuilder"
  /\ pc = "idle"
  /\ dh = Nil
  /\ msg = [data |-> << >>, sig |-> << >>]
  /\ InitLocals
  /\ backing = << >>
  /\ prompts = << >>
  /\ promptLog = << >>
  /\ bld = [heap |-> << defaultDecryptionHandle(DefaultClock) >>,
            handle |-> 1,
            defaultClock |-> DefaultClock,
            err |-> NoErr,
            built |-> << >>,
            touched |-> {},
            last |-> [op |-> "newDecryptionHandleBuilder", handle |-> 0, err |-> NoErr,
                      afterFailure |-> FALSE, afterRejection |-> FALSE,
                      draftValid |-> FALSE],
            failed |-> FALSE,
            rejected |-> FALSE,
            setters |-> 0]

\* A setter call: the draft's field becomes v and dpb.err becomes e (setErr)
\* or stays. built, touched, last, failed and setters record the history:
\* the handles New returned, the fields set since the last successful New,
\* the last call, whether a setter call has failed and whether New has
\* returned a validation error since the builder was created or last
\* returned a handle, the number of setter calls.
SetterCall(op, field, v, setErr, e) ==
  /\ fn = "DecryptionHandleBuilder"
  /\ bld.setters < MaxSetters
  /\ bld' = [bld EXCEPT !.heap[bld.handle][field] = v,
                        !.err = IF setErr THEN e ELSE bld.err,
                        !.touched = bld.touched \cup {field},
                        !.last = [op |-> op, handle |-> 0, err |-> NoErr,
                                  afterFailure |-> bld.failed,
                                  afterRejection |-> bld.rejected,
                                  draftValid |-> validate(Draft) = NoErr],
                        !.failed = bld.failed \/ (setErr /\ e # NoErr),
                        !.setters = bld.setters + 1]
  /\ UNCHANGED << fn, pc, dh, msg, pos, cur, ci, skStart, decrypted, err,
                  selected, attempts, plain, md, cfg, prompts, promptLog,
                  rmCalls, ret, rt, backing >>

DecryptionKeys ==
  \E ring \in {Nil, Ring(<< "e1" >>)} :
    SetterCall("DecryptionKeys", "DecryptionKeyRing", ring, FALSE, NoErr)

DecryptionKey ==
  \E key \in {"e2", "locked"} :
    SetterCall("DecryptionKey", "DecryptionKeyRing",
               AddKey(Draft.DecryptionKeyRing, key), TRUE, AddKeyErr(key))

SessionKey ==
  SetterCall("SessionKey", "SessionKey", SK("k1", "aes256", FALSE), FALSE, NoErr)

Password ==
  SetterCall("Password", "Password", Bytes("pw1"), FALSE, NoErr)

VerifyKeys ==
  SetterCall("VerifyKeys", "VerifyKeyRing", Ring(<< "v1" >>), FALSE, NoErr)

VerifyKey ==
  \E key \in {"v2", "locked"} :
    SetterCall("VerifyKey", "VerifyKeyRing",
               AddKey(Draft.VerifyKeyRing, key), TRUE, AddKeyErr(key))

VerificationContext ==
  SetterCall("VerificationContext", "VerificationContext",
             [Value |-> "my-context", IsRequired |-> TRUE], FALSE, NoErr)

VerifyTime ==
  SetterCall("VerifyTime", "clock", ConstantClock(20), FALSE, NoErr)

DisableVerifyTimeCheck ==
  SetterCall("DisableVerifyTimeCheck", "DisableVerifyTimeCheck", TRUE, FALSE, NoErr)

DisableIntendedRecipients ==
  SetterCall("DisableIntendedRecipients", "DisableIntendedRecipients", TRUE, FALSE, NoErr)

RetrieveSessionKey ==
  SetterCall("RetrieveSessionKey", "RetrieveSessionKey", TRUE, FALSE, NoErr)

\* A faulty variant of New: the draft is not replaced after a successful build.
NewKeepsDraft ==
  /\ fn = "DecryptionHandleBuilder"
  /\ Len(bld.built) < MaxBuilds
  /\ IF bld.err # NoErr
     THEN bld' = [bld EXCEPT !.last = [op |-> "New", handle |-> 0, err |-> bld.err,
                                       afterFailure |-> bld.failed,
                                       afterRejection |-> bld.rejected,
                                       draftValid |-> validate(Draft) = NoErr]]
     ELSE IF validate(Draft) # NoErr
     THEN bld' = [bld EXCEPT !.err = validate(Draft),
                             !.rejected = TRUE,
                             !.last = [op |-> "New", handle |-> 0, err |-> validate(Draft),
                                       afterFailure |-> bld.failed,
                                       afterRejection |-> bld.rejected,
                                       draftValid |-> FALSE]]
     ELSE bld' = [bld EXCEPT !.built = Append(bld.built,
                                 [handle |-> bld.handle, snapshot |-> Draft,
                                  touched |-> bld.touched]),
                             !.touched = {},
                             !.failed = FALSE,
                             !.rejected = FALSE,
                             !.last = [op |-> "New", handle |-> bld.handle, err |-> NoErr,
                                       afterFailure |-> bld.failed,
                                       afterRejection |-> bld.rejected,
                                       draftValid |-> TRUE]]
  /\ UNCHANGED << fn, pc, dh, msg, pos, cur, ci, skStart, decrypted, err,
                  selected, attempts, plain, md, cfg, prompts, promptLog,
                  rmCalls, ret, rt, backing >>

\* DecryptionHandleBuilder.New(): a pending error or a validation error is
\* returned with no handle; else the draft is returned and dpb.handle points
\* to a new default handle.
New ==
  /\ fn = "DecryptionHandleBuilder"
  /\ Len(bld.built) < MaxBuilds
  /\ IF bld.err # NoErr
     THEN bld' = [bld EXCEPT !.last = [op |-> "New", handle |-> 0, err |-> bld.err,
                                       afterFailure |-> bld.failed,
                                       afterRejection |-> bld.rejected,
                                       draftValid |-> validate(Draft) = NoErr]]
     ELSE IF validate(Draft) # NoErr
     THEN bld' = [bld EXCEPT !.err = validate(Draft),
                             !.rejected = TRUE,
                             !.last = [op |-> "New", handle |-> 0, err |-> validate(Draft),
                                       afterFailure |-> bld.failed,
                                       afterRejection |-> bld.rejected,
                                       draftValid |-> FALSE]]
     ELSE bld' = [bld EXCEPT !.heap = Append(bld.heap, defaultDecryptionHandle(bld.defaultClock)),
                             !.handle = Len(bld.heap) + 1,
                             !.built = Append(bld.built,
                                 [handle |-> bld.handle, snapshot |-> Draft,
                                  touched |-> bld.touched]),
                             !.touched = {},
                             !.failed = FALSE,
                             !.rejected = FALSE,
                             !.last = [op |-> "New", handle |-> bld.handle, err |-> NoErr,
                                       afterFailure |-> bld.failed,
                                       afterRejection |-> bld.rejected,
                                       draftValid |-> TRUE]]
  /\ UNCHANGED << fn, pc, dh, msg, pos, cur, ci, skStart, decrypted, err,
                  selected, attempts, plain, md, cfg, prompts, promptLog,
                  rmCalls, ret, rt, backing >>

NextBuilder ==
  \/ DecryptionKeys
  \/ DecryptionKey
  \/ SessionKey
  \/ Password
  \/ VerifyKeys
  \/ VerifyKey
  \/ VerificationContext
  \/ VerifyTime
  \/ DisableVerifyTimeCheck
  \/ DisableIntendedRecipients
  \/ RetrieveSessionKey
  \/ New

SpecBuilder == InitBuilder /\ [][NextBuilder]_vars


\* packet.Config.IntendedRecipients(): the value of CheckIntendedRecipients,
\* and checking when the field is unset.
IntendedRecipients(config) ==
  IF config.CheckIntendedRecipients = Nil THEN TRUE
  ELSE config.CheckIntendedRecipients.val


\* ------------------------------------------- session-key stream round trip
\* The bytes of a plaintext: letters and the two line-ending bytes.
PlainBytes == {"a", "CR", "LF"}

\* internal.NewSanitizeReader: the bytes read through it have their line
\* endings normalized, CR LF and CR becoming LF.
RECURSIVE SanitizeReader(_)
SanitizeReader(b) ==
  IF b = << >> THEN << >>
  ELSE IF b[1] = "CR" /\ Len(b) > 1 /\ b[2] = "LF"
  THEN << "LF" >> \o SanitizeReader(SubSeq(b, 3, Len(b)))
  ELSE IF b[1] = "CR" THEN << "LF" >> \o SanitizeReader(Tail(b))
  ELSE << b[1] >> \o SanitizeReader(Tail(b))

\* The session keys of the round trip: one with its cipher, one v6.
RoundTripKeys == { SK("k1", "aes256", FALSE), SK("k2", "aes256", TRUE) }

\* The test starts: a plaintext, the literal header values and a session
\* key are chosen; nothing is written yet.
InitRoundTrip ==
  /\ fn = "decryptStreamWithSession"
  /\ pc = "encrypt"
  /\ dh = Nil
  /\ msg = [data |-> << >>, sig |-> << >>]
  /\ pos = [data |-> 0, sig |-> 0]
  /\ cur = "data"
  /\ ci = 0
  /\ skStart = 0
  /\ decrypted = Nil
  /\ err = NoErr
  /\ selected = 0
  /\ attempts = << >>
  /\ plain = [data |-> Nil, sig |-> Nil]
  /\ md = [data |-> Nil, sig |-> Nil]
  /\ cfg = NoConfig
  /\ rmCalls = << >>
  /\ ret = NoReturn
  /\ prompts = << >>
  /\ promptLog = << >>
  /\ bld = NoBuilder
  /\ backing = << >>
  /\ \E P \in SeqUpTo(PlainBytes, MaxPlain), isBinary \in BOOLEAN,
        filename \in {"", "filename.txt"}, modTime \in {0, 7},
        sk \in RoundTripKeys :
       rt = [P |-> P, isBinary |-> isBinary, filename |-> filename,
             modTime |-> modTime, sessionKey |-> sk, signer |-> "s1",
             written |-> Nil, out |-> Nil, verify |-> Nil]

\* sk.EncryptStream(writer, isBinary, filename, modTime, signKeyRing), the
\* plaintext written and the writer closed: one encrypted-data packet under
\* sk holding a literal packet with the header values and the bytes of P,
\* signed by the signer; the signature is of text type for a text literal.
EncryptStream ==
  /\ fn = "decryptStreamWithSession"
  /\ rt # NoRoundTrip
  /\ pc = "encrypt"
  /\ pc' = "encrypted"
  /\ msg' = [msg EXCEPT !.data =
               << Pkt(IF rt.sessionKey.v6 THEN "AEADEncrypted"
                      ELSE "SymmetricallyEncrypted", rt.sessionKey.Key, "none") >>]
  /\ rt' = [rt EXCEPT !.written =
              [ok |-> TRUE,
               lit |-> [FileName |-> rt.filename, Time |-> rt.modTime,
                        IsBinary |-> rt.isBinary],
               sigs |-> << IF rt.isBinary THEN "binary" ELSE "text" >>,
               body |-> rt.P, signer |-> rt.signer]]
  /\ UNCHANGED << fn, dh, pos, cur, ci, skStart, decrypted, err, selected,
                  attempts, plain, md, cfg, prompts, promptLog, rmCalls, ret, bld, backing >>

\* sk.DecryptStream(reader, verifyKeyRing, verifyTime): a request with the
\* one session key and the verify keys, handed to decryptStreamWithSession.
SessionKeyDecryptStream ==
  /\ fn = "decryptStreamWithSession"
  /\ rt # NoRoundTrip
  /\ pc = "encrypted"
  /\ pc' = "range"
  /\ dh' = Handle(Nil, Ring(<< rt.signer >>), << rt.sessionKey >>, Nil, Nil,
                  FALSE, FALSE, FALSE, 10)
  /\ UNCHANGED << fn, msg, pos, cur, ci, skStart, decrypted, err, selected,
                  attempts, plain, md, cfg, prompts, promptLog, rmCalls, ret,
                  bld, rt, backing >>

\* io.ReadAll(decryptedReader): what the reader yields up to its end.
ReadAll ==
  /\ fn = "decryptStreamWithSession"
  /\ rt # NoRoundTrip
  /\ pc = "done"
  /\ ret.reader # Nil
  /\ pc' = "read"
  /\ rt' = [rt EXCEPT !.out =
              Bytes(IF ret.reader.internalReader.sanitize
                    THEN SanitizeReader(plain.data.body)
                    ELSE plain.data.body)]
  /\ ret' = [ret EXCEPT !.reader.readAll = TRUE]
  /\ UNCHANGED << fn, dh, msg, pos, cur, ci, skStart, decrypted, err, selected,
                  attempts, plain, md, cfg, prompts, promptLog, rmCalls, bld, backing >>

\* The signature check of VerifySignature over the bytes read: a binary
\* signature covers the bytes, a text signature the text with normalized
\* line endings.
SignatureChecks(sigType, signed, read) ==
  IF sigType = "text" THEN SanitizeReader(signed) = SanitizeReader(read)
  ELSE signed = read

\* decryptedReader.VerifySignature(): the verification result once the
\* reader was read to its end.
VerifySignature ==
  /\ fn = "decryptStreamWithSession"
  /\ rt # NoRoundTrip
  /\ pc = "read"
  /\ pc' = "verified"
  /\ LET r == ret.reader
         c == plain.data
         keyOk == \E i \in 1..Len(Entities(r.verifyKeyRing)) :
                    Entities(r.verifyKeyRing)[i] = c.signer
     IN rt' = [rt EXCEPT !.verify =
                 IF ~r.readAll THEN << "gopenpgp: message not fully read" >>
                 ELSE IF Len(r.details.SignatureCandidates) = 0
                 THEN << "gopenpgp: message is not signed" >>
                 ELSE IF ~keyOk THEN << "gopenpgp: no matching verification key" >>
                 ELSE IF ~SignatureChecks(
                            r.details.SignatureCandidates[Len(r.details.SignatureCandidates)],
                            c.body, rt.out.bytes)
                 THEN << "gopenpgp: invalid signature" >>
                 ELSE NoErr]
  /\ UNCHANGED << fn, dh, msg, pos, cur, ci, skStart, decrypted, err, selected,
                  attempts, plain, md, cfg, prompts, promptLog, rmCalls, ret, bld, backing >>

\* The getters of the reader.
IsBinary(r) == r.details.LiteralData.IsBinary
GetFilename(r) == r.details.LiteralData.FileName
GetModificationTime(r) == r.details.LiteralData.Time

NextRoundTrip ==
  \/ EncryptStream
  \/ SessionKeyDecryptStream
  \/ RangeNext
  \/ SessionKeyLoop
  \/ RangeCheck
  \/ AfterRange
  \/ WithSessionReturn
  \/ ReadAll
  \/ VerifySignature

SpecRoundTrip == InitRoundTrip /\ [][NextRoundTrip]_vars


\* ------------------------------------ decryptStreamWithSession, running on
\* The steps of decryptStreamWithSession alone; the loop of
\* decryptStreamWithSessionKey is sequential code and keeps taking its next
\* iteration.
NextSession ==
  \/ RangeNext
  \/ SessionKeyLoop
  \/ RangeCheck
  \/ AfterRange
  \/ WithSessionReturn

SpecSessionFair ==
  /\ InitSession
  /\ [][NextSession]_vars
  /\ WF_vars(SessionKeyLoop)


\* ------------------------------------------------------ getSignaturePacket
\* The most packets the sig bytes hold.
MaxSigBytes == 2

\* A signature packet of the given type, and bytes that frame no packet.
SignaturePkt(sigType) == Pkt("Signature", "none", sigType)
Malformed == Pkt("Malformed", "none", "none")

\* What the sig bytes are made of.
SigBytesAlphabet ==
  { SignaturePkt(t) : t \in SigTypes } \cup
  { Malformed, Literal, PKESK, SKESK, SEIPD1, AEAD2 }

\* packet.Read(bytes.NewReader(sig)): the first packet of the bytes, or the
\* error of reading it (nothing to read, or bytes that frame no packet).
PacketRead(sig) ==
  IF Len(sig) = 0 THEN [p |-> Nil, err |-> << "EOF" >>]
  ELSE IF sig[1].kind = "Malformed"
  THEN [p |-> Nil, err |-> << "openpgp: invalid data" >>]
  ELSE [p |-> sig[1], err |-> NoErr]

\* getSignaturePacket(sig): the read error is returned as it is; a packet
\* that is not a *packet.Signature returns the wrapping of err, which is nil
\* at that point.
getSignaturePacket(sig) ==
  LET r == PacketRead(sig) IN
    IF r.err # NoErr THEN Return(Nil, r.err)
    ELSE IF r.p.kind # "Signature"
    THEN Return(Nil, ErrWrap(r.err, "gopenpgp: invalid signature packet"))
    ELSE Return(r.p, NoErr)

InitSignaturePacket ==
  /\ fn = "getSignaturePacket"
  /\ pc = "call"
  /\ dh = Nil
  /\ msg \in { [data |-> << >>, sig |-> s] : s \in SeqUpTo(SigBytesAlphabet, MaxSigBytes) }
  /\ InitLocals
  /\ backing = << >>
  /\ prompts = << >>
  /\ promptLog = << >>
  /\ bld = NoBuilder

\* getSignaturePacket is called on the sig bytes and returns.
GetSignaturePacket ==
  /\ fn = "getSignaturePacket"
  /\ pc = "call"
  /\ pc' = "done"
  /\ ret' = getSignaturePacket(msg.sig)
  /\ UNCHANGED << fn, dh, msg, pos, cur, ci, skStart, decrypted, err, selected,
                  attempts, plain, md, cfg, prompts, promptLog, rmCalls, bld, rt, backing >>

NextSignaturePacket == GetSignaturePacket

SpecSignaturePacket == InitSignaturePacket /\ [][NextSignaturePacket]_vars


\* ================================================================= claims

\* Whether candidate sk decrypts data packet p: decryptStreamWithSessionKey,
\* reading p with a fresh reader, returns a decrypted stream.
CanDecrypt(sk, p) ==
  /\ sk.v6 \/ GetCipherFunc(sk).err = NoErr
  /\ DecryptOk(p, IF sk.v6 THEN ZeroCipher ELSE GetCipherFunc(sk).dc, sk.Key)

\* The stream's first encrypted-data packet is at index d: only key-exchange
\* packets precede it.
IsFirstDataPacket(s, d) ==
  /\ d = FirstNonKey(s, 1)
  /\ d <= Len(s)
  /\ s[d].kind \in DataPacketKinds

\* C1: session-key mode: if exactly one candidate of the list, at any
\* position i, can decrypt the stream's first encrypted-data packet, then
\* decryptStreamWithSessionAndParse selects candidate i.
C1_SoleMatchingCandidateSelected ==
  (fn = "decryptStreamWithSession" /\ pc \in {"parse_ret", "done"}) =>
    \A d \in 1..Len(msg.data) : \A i \in 1..Len(dh.SessionKeys) :
      ( /\ IsFirstDataPacket(msg.data, d)
        /\ CanDecrypt(dh.SessionKeys[i], msg.data[d])
        /\ \A j \in 1..Len(dh.SessionKeys) :
             j # i => ~CanDecrypt(dh.SessionKeys[j], msg.data[d]) )
      => /\ selected = i
         /\ plain.data # Nil

\* C2: session-key mode: when no candidate is selected (none decrypted the
\* data packet, or the list is empty), decryptStreamWithSessionAndParse
\* returns a non-nil error and no message details.
C2_NoCandidateMeansError ==
  (pc = "parse_ret" /\ selected = 0) => (err # NoErr /\ md[cur] = Nil)

\* The invocations of prompt closure id logged before the k-th log entry.
EarlierCalls(id, k) == { j \in 1..(k - 1) : promptLog[j].prompt = id }

\* C3: over any sequence of invocations of a prompt created with a non-nil
\* password, the first invocation returns the password and no error and
\* every later one returns no password and the wrong-password error, so the
\* password is handed out exactly once per prompt.
C3_PromptOneShot ==
  \A k \in 1..Len(promptLog) :
    LET e == promptLog[k] IN
      /\ EarlierCalls(e.prompt, k) = {} =>
           (e.ret = prompts[e.prompt].password /\ e.err = NoErr)
      /\ EarlierCalls(e.prompt, k) # {} =>
           ( /\ e.ret = Nil
             /\ e.err = << "gopenpgp: wrong password in symmetric decryption" >> )
      /\ Cardinality({ j \in 1..Len(promptLog) :
                         promptLog[j].prompt = e.prompt /\ promptLog[j].ret # Nil }) = 1

\* A prompt has been invoked three times.
C3_Witness ==
  \E k \in 1..Len(promptLog) :
    Cardinality(EarlierCalls(promptLog[k].prompt, k)) >= 2

HandleFields ==
  {"DecryptionKeyRing", "VerifyKeyRing", "SessionKey", "Password",
   "VerificationContext", "DisableVerifyTimeCheck", "DisableIntendedRecipients",
   "RetrieveSessionKey", "clock"}

C5_ErrorOrReader ==
  ret.done =>
    /\ ~ret.panic
    /\ \/ (ret.err # NoErr /\ ret.reader = Nil)
       \/ (ret.err = NoErr /\ ret.reader # Nil /\ ret.reader.details # Nil)

\* The session key that unlocked the data stream, as its message details
\* expose it.
DataStreamSessionKey ==
  IF Len(dh.SessionKeys) > 0
  THEN Bytes(msg.data[md.data.UnverifiedBody.check.at].key)
  ELSE IF dh.RetrieveSessionKey
  THEN Bytes(msg.data[md.data.UnverifiedBody.at].key)
  ELSE Nil

\* C6: the literal metadata and the session key of the reader returned by
\* decryptStreamAndVerifyDetached are those of the data stream, in both
\* branches, never those of the signature stream.
C6_DetachedDetailsFromData ==
  (fn = "decryptStreamAndVerifyDetached" /\ ret.done /\ ret.reader # Nil) =>
    /\ ret.reader.details.LiteralData = plain.data.lit
    /\ ret.reader.details.SessionKey = DataStreamSessionKey

\* A detached reader was returned for streams whose literal headers and
\* session keys differ.
C6_Witness ==
  /\ fn = "decryptStreamAndVerifyDetached"
  /\ ret.done
  /\ ret.reader # Nil
  /\ plain.data.lit # plain.sig.lit
  /\ md.data.SessionKey # md.sig.SessionKey

\* The prompt invocations logged for a stream, in order.
StreamLog(name) ==
  LET idx == { k \in 1..Len(promptLog) : promptLog[k].stream = name }
      RECURSIVE pick(_)
      pick(S) == IF S = {} THEN << >>
                 ELSE LET k == CHOOSE x \in S : \A y \in S : x <= y
                      IN << [ret |-> promptLog[k].ret, err |-> promptLog[k].err] >>
                           \o pick(S \ {k})
  IN pick(idx)

\* The ReadMessage call logged for a stream.
CallOf(name) ==
  CHOOSE c \in { rmCalls[k] : k \in 1..Len(rmCalls) } : c.stream = name /\ ~c.inner

Called(name) ==
  \E k \in 1..Len(rmCalls) : rmCalls[k].stream = name /\ ~rmCalls[k].inner

\* C7: detached private-key/password mode: each stream has its own one-shot
\* prompt; the password is handed out once for the data stream and once for
\* the signature stream, and what a stream's prompt returns is what a fresh
\* prompt returns for that stream alone, whatever the other prompt was
\* asked.
C7_OnePromptPerStream ==
  (fn = "decryptStreamAndVerifyDetached" /\ Len(dh.SessionKeys) = 0 /\ dh.Password # Nil) =>
    /\ \A k \in 1..Len(promptLog) :
         /\ Called(promptLog[k].stream)
         /\ promptLog[k].prompt = CallOf(promptLog[k].stream).prompt
    /\ (Called("data") /\ Called("sig")) => CallOf("data").prompt # CallOf("sig").prompt
    /\ \A name \in {"data", "sig"} :
         Called(name) =>
           /\ StreamLog(name) =
                ReadMessageUnlock(msg[name], CallOf(name).entries,
                                  createPasswordPrompt(dh.Password),
                                  CallOf(name).config).log
           /\ StreamLog(name) # << >> =>
                /\ StreamLog(name)[1] = [ret |-> dh.Password, err |-> NoErr]
                /\ \A i \in 2..Len(StreamLog(name)) : StreamLog(name)[i].ret = Nil

\* The password was handed out for the data stream and again for the
\* signature stream, whose prompt was then asked a second time.
C7_Witness ==
  /\ fn = "decryptStreamAndVerifyDetached"
  /\ Len(StreamLog("data")) = 1
  /\ Len(StreamLog("sig")) = 2
  /\ StreamLog("sig")[1].ret = dh.Password

\* decryptStreamWithSessionKey for candidate sk on a reader of s at position
\* p, run to its return.
RECURSIVE SessionKeyRun(_, _, _, _)
SessionKeyRun(sk, name, s, p) ==
  LET r == SessionKeyStep(sk, name, s, p) IN
  IF r.ctl = "continue" THEN SessionKeyRun(sk, name, s, r.pos) ELSE r

\* The candidate loop of decryptStreamWithSessionAndParse on a reader of s
\* at position p, from candidate i on, the last error being e.
RECURSIVE CandidateRun(_, _, _, _, _, _)
CandidateRun(sks, name, s, p, i, e) ==
  IF i > Len(sks) THEN [selected |-> 0, decrypted |-> Nil, err |-> e]
  ELSE LET r == SessionKeyRun(sks[i], name, s, p) IN
       IF r.err = NoErr THEN [selected |-> i, decrypted |-> r.decrypted, err |-> NoErr]
       ELSE CandidateRun(sks, name, s, r.pos, i + 1, r.err)

\* The plaintext a stream's data packet held, if it was opened.
PlainOf(name) ==
  IF plain[name] = Nil THEN [ok |-> FALSE, lit |-> Nil, sigs |-> << >>] ELSE plain[name]

\* ReadMessage on a stream alone: a fresh prompt, the config as created and,
\* for the signature stream, without the packet sequence check.
AloneWithKeys(name) ==
  ReadMessage(name, msg[name], Entities(dh.DecryptionKeyRing),
              createPasswordPrompt(dh.Password),
              [CacheSessionKey |-> dh.RetrieveSessionKey, Time |-> dh.clock,
               CheckPacketSequence |-> (name = "data"),
               CheckIntendedRecipients |-> Nil, KnownNotations |-> FALSE],
              PlainOf(name))

C9_TextSignatureSanitized ==
  (fn \in {"decryptStream", "decryptStreamWithSession"} /\ ret.done /\ ret.reader # Nil) =>
    (ret.reader.internalReader.sanitize <=>
       \E i \in 1..Len(plain.data.sigs) : plain.data.sigs[i] = "text")

\* C10: in decryptStreamWithSessionKey, the key-exchange packets before the
\* first encrypted-data packet are skipped without a decryption attempt, a
\* decryption is attempted only on the first encrypted-data packet the call
\* reads, and a packet of another type before it ends the call with the
\* invalid-packet error and no decrypted stream.
C10_OnlyFirstDataPacketTried ==
  /\ \A k \in 1..Len(attempts) :
       LET a == attempts[k] IN
         /\ msg[a.stream][a.at].kind \in DataPacketKinds
         /\ \A j \in (a.start + 1)..(a.at - 1) : msg[a.stream][j].kind \in KeyPacketKinds
         /\ \A l \in 1..Len(attempts) :
              (attempts[l].stream = a.stream /\ attempts[l].cand = a.cand) => l = k
  /\ pc = "sk_loop" =>
       /\ \A j \in (skStart + 1)..pos[cur] : msg[cur][j].kind \in KeyPacketKinds
       /\ \A k \in 1..Len(attempts) :
            ~(attempts[k].stream = cur /\ attempts[k].cand = ci)
  /\ pc = "sk_ret" =>
       LET d == FirstNonKey(msg[cur], skStart + 1) IN
         /\ pos[cur] = IF d > Len(msg[cur]) THEN Len(msg[cur]) ELSE d
         /\ (d <= Len(msg[cur]) /\ msg[cur][d].kind \notin DataPacketKinds) =>
              /\ err = << "gopenpgp: invalid packet type" >>
              /\ decrypted = Nil
              /\ \A k \in 1..Len(attempts) :
                   ~(attempts[k].stream = cur /\ attempts[k].cand = ci)
         /\ (d <= Len(msg[cur]) /\ msg[cur][d].kind \in DataPacketKinds
               /\ CanDecrypt(dh.SessionKeys[ci], msg[cur][d])) =>
              (err = NoErr /\ decrypted # Nil /\ decrypted.at = d)

\* A call skipped two key-exchange packets and then tried the data packet.
C10_Witness ==
  /\ pc = "sk_ret"
  /\ \E k \in 1..Len(attempts) :
       /\ attempts[k].cand = ci
       /\ attempts[k].stream = cur
       /\ attempts[k].at >= attempts[k].start + 3

\* C11: on every decryption path the intended-recipient check of the config
\* given to openpgp.ReadMessage, and of the config given to the detached
\* verifier, is enabled exactly when dh.DisableIntendedRecipients is not set.
C11_IntendedRecipientsFlagHonoured ==
  /\ \A k \in 1..Len(rmCalls) :
       IntendedRecipients(rmCalls[k].config) = ~dh.DisableIntendedRecipients
  /\ (fn = "decryptStreamAndVerifyDetached" /\ ret.done /\ ret.reader # Nil) =>
       ret.reader.checkIntendedRecipients = Ptr(~dh.DisableIntendedRecipients)


\* The round trip is over and gave back what was put in: the stream was
\* decrypted, the bytes read are those of P, the signature verifies and the
\* getters return the header values given at encryption.
RoundTripExact ==
  /\ ret.reader # Nil
  /\ ret.err = NoErr
  /\ rt.out = Bytes(rt.P)
  /\ rt.verify = NoErr
  /\ IsBinary(ret.reader) = rt.isBinary
  /\ GetFilename(ret.reader) = rt.filename
  /\ GetModificationTime(ret.reader) = rt.modTime

\* The round trip has ended: with an error of the decryption, or with the
\* verification result.
RoundTripEnded ==
  /\ rt # NoRoundTrip
  /\ \/ pc = "verified"
     \/ pc = "done" /\ ret.reader = Nil

C13_NewReportsSetterFailure ==
  (fn = "DecryptionHandleBuilder" /\ bld.last.op = "New" /\ bld.last.afterFailure) =>
    (bld.last.err # NoErr /\ bld.last.handle = 0)


\* A packet of an unexpected type comes before any encrypted-data packet.
UnexpectedPacketFirst(s) ==
  /\ FirstNonKey(s, 1) <= Len(s)
  /\ s[FirstNonKey(s, 1)].kind \notin DataPacketKinds

\* The password did not unlock the message: the prompt was asked again
\* after it had handed the password out.
PasswordFailed ==
  \E k \in 1..Len(promptLog) : promptLog[k].err # NoErr

MalformedError == << "openpgp: malformed message: unexpected packet" >>

\* C14: decryptStream reports a stream with an unexpected packet before any
\* encrypted-data packet as a malformed message, and the error it returns
\* for a wrong password is returned only when the password failed to unlock
\* the message, so the two are told apart in password mode.
C14_MalformedToldFromWrongPassword ==
  (fn = "decryptStream" /\ ret.done) =>
    /\ (UnexpectedPacketFirst(msg.data) /\ dh.DecryptionKeyRing # Nil) =>
         ret.err = ErrWrap(MalformedError,
                           "gopenpgp: decrypting message with private keys failed")
    /\ ret.err = WrongPasswordOrMalformed => PasswordFailed

\* C14 as amended: in private-key mode the error of the message reader is
\* returned wrapped, a malformed message as such; in password mode every
\* error of the message reader, for a malformed message as for a wrong
\* password, is returned as the one error "wrong password or malformed
\* message".
C14_PasswordModeOneError ==
  (fn = "decryptStream" /\ ret.done) =>
    /\ (UnexpectedPacketFirst(msg.data) /\ dh.DecryptionKeyRing # Nil) =>
         ret.err = ErrWrap(MalformedError,
                           "gopenpgp: decrypting message with private keys failed")
    /\ dh.DecryptionKeyRing = Nil =>
         /\ ret.err \in {NoErr, WrongPasswordOrMalformed}
         /\ (UnexpectedPacketFirst(msg.data) \/ PasswordFailed) =>
              (ret.err = WrongPasswordOrMalformed /\ ret.reader = Nil)
    /\ ret.err = WrongPasswordOrMalformed => dh.DecryptionKeyRing = Nil

\* Password mode returned its one error for a stream with an unexpected
\* packet first, the prompt never having been asked.
C14_Witness ==
  /\ fn = "decryptStream"
  /\ ret.done
  /\ dh.Password # Nil
  /\ UnexpectedPacketFirst(msg.data)
  /\ promptLog = << >>
  /\ ret.err = WrongPasswordOrMalformed


\* C15: no step of decryptStream, decryptStreamWithSession or
\* decryptStreamAndVerifyDetached changes a field of the decryption handle
\* or the storage behind the entity list of its decryption key ring.
C15_RequestReadOnly ==
  [][(fn \in {"decryptStream", "decryptStreamWithSession",
              "decryptStreamAndVerifyDetached"})
       => (dh' = dh /\ backing' = backing)]_vars


\* The Decrypt calls logged for stream name.
AttemptsOn(name) == { k \in 1..Len(attempts) : attempts[k].stream = name }

\* C16: session-key mode: the session key in the message details is the key
\* of the selected candidate, with or without RetrieveSessionKey; the
\* selected candidate is the first whose decryption attempt returned no
\* error, and no candidate after it is tried.
C16_SessionKeyOfSelectedCandidate ==
  /\ (Len(dh.SessionKeys) > 0 /\ pc = "parse_ret" /\ md[cur] # Nil) =>
       /\ selected \in 1..Len(dh.SessionKeys)
       /\ ci = selected
       /\ md[cur].SessionKey = Bytes(dh.SessionKeys[selected].Key)
       /\ \E k \in AttemptsOn(cur) :
            /\ attempts[k].cand = selected
            /\ attempts[k].key = dh.SessionKeys[selected].Key
            /\ DecryptOk(msg[cur][attempts[k].at], attempts[k].dc, attempts[k].key)
       /\ \A k \in AttemptsOn(cur) :
            /\ attempts[k].cand <= selected
            /\ attempts[k].cand < selected =>
                 ~DecryptOk(msg[cur][attempts[k].at], attempts[k].dc, attempts[k].key)
  /\ (fn = "decryptStreamWithSession" /\ rt = NoRoundTrip /\ ret.done /\ ret.reader # Nil) =>
       ret.reader.details.SessionKey = Bytes(dh.SessionKeys[selected].Key)

\* The second candidate was selected after the first had failed, and its
\* key is in the details although RetrieveSessionKey is not set.
C16_Witness ==
  /\ fn = "decryptStreamWithSession"
  /\ ret.done
  /\ ret.reader # Nil
  /\ selected = 2
  /\ ~dh.RetrieveSessionKey
  /\ ret.reader.details.SessionKey = Bytes(dh.SessionKeys[2].Key)


\* C17: decryptStreamWithSessionKey: for a v6 candidate the cipher function
\* is not asked and Decrypt is called with the zero cipher id; for another
\* candidate Decrypt is called with the candidate's cipher function, and
\* when that cannot be resolved the call returns an error without calling
\* Decrypt.
C17_V6KeyWithoutCipherId ==
  /\ \A k \in 1..Len(attempts) :
       LET sk == dh.SessionKeys[attempts[k].cand] IN
         /\ sk.v6 => attempts[k].dc = ZeroCipher
         /\ ~sk.v6 => /\ GetCipherFunc(sk).err = NoErr
                      /\ attempts[k].dc = GetCipherFunc(sk).dc
  /\ pc = "sk_ret" =>
       LET sk == dh.SessionKeys[ci]
           d == FirstNonKey(msg[cur], skStart + 1)
           called == \E k \in AttemptsOn(cur) :
                       attempts[k].cand = ci /\ attempts[k].at = d
       IN (d <= Len(msg[cur]) /\ msg[cur][d].kind \in DataPacketKinds) =>
            IF ~sk.v6 /\ GetCipherFunc(sk).err # NoErr
            THEN /\ ~called
                 /\ decrypted = Nil
                 /\ err = ErrWrap(GetCipherFunc(sk).err,
                                  "gopenpgp: unable to decrypt with session key")
            ELSE called

\* A candidate whose cipher function does not resolve has returned an error
\* without a Decrypt call, and a v6 candidate with the same unresolvable
\* algorithm has then decrypted an AEAD packet with the zero cipher id.
C17_Witness ==
  /\ pc = "sk_ret"
  /\ ci = 2
  /\ err = NoErr
  /\ ~dh.SessionKeys[1].v6
  /\ GetCipherFunc(dh.SessionKeys[1]).err # NoErr
  /\ \A k \in AttemptsOn(cur) : attempts[k].cand = 2
  /\ dh.SessionKeys[2].v6
  /\ GetCipherFunc(dh.SessionKeys[2]).err # NoErr
  /\ \E k \in AttemptsOn(cur) : attempts[k].cand = 2 /\ attempts[k].dc = ZeroCipher


\* C18: in decryptStream the entities handed to openpgp.ReadMessage are
\* exactly those of the request's decryption key ring: no verification key
\* among them, and none at all in password mode.
C18_OnlyDecryptionKeysOffered ==
  fn = "decryptStream" =>
    \A k \in 1..Len(rmCalls) :
      /\ rmCalls[k].entries = Entities(dh.DecryptionKeyRing)
      /\ dh.DecryptionKeyRing = Nil => rmCalls[k].entries = << >>


\* C19: decryptStreamWithSessionKey terminates on every finite stream: a
\* call under way returns; every iteration that reads a packet moves the
\* reader on by one packet; and a call that finds only key-exchange packets
\* up to the end of the stream, or none at all, returns the read error.
C19_SessionKeyLoopTerminates ==
  /\ (pc = "sk_loop") ~> (pc = "sk_ret")
  /\ [][pc = "sk_loop" =>
          \/ pos'[cur] = pos[cur] + 1
          \/ pos[cur] = Len(msg[cur]) /\ pos' = pos /\ pc' = "sk_ret"]_vars
  /\ []((pc = "sk_ret" /\ FirstNonKey(msg[cur], skStart + 1) > Len(msg[cur])) =>
          /\ decrypted = Nil
          /\ err = ErrWrap(<< "EOF" >>, "gopenpgp: unable to read symmetric packet"))

\* A call has returned the read error after skipping two key-exchange
\* packets that end the stream.
C19_Witness ==
  /\ fn = "decryptStreamWithSession"
  /\ pc = "sk_ret"
  /\ pos[cur] = Len(msg[cur])
  /\ pos[cur] >= skStart + 2
  /\ FirstNonKey(msg[cur], skStart + 1) > Len(msg[cur])
  /\ err = ErrWrap(<< "EOF" >>, "gopenpgp: unable to read symmetric packet")


\* C20: after New() has returned a validation error, a New() called on a
\* draft that setters have made valid, no setter having failed, returns a
\* handle.
C20_BuilderUsableAfterFailedBuild ==
  ( /\ fn = "DecryptionHandleBuilder"
    /\ bld.last.op = "New"
    /\ bld.last.afterRejection
    /\ ~bld.last.afterFailure
    /\ bld.last.draftValid )
  => (bld.last.err = NoErr /\ bld.last.handle # 0)


\* The sig bytes parse to a packet that is not a signature packet.
ParsesToOtherPacket(sig) ==
  /\ Len(sig) > 0
  /\ sig[1].kind \notin {"Malformed", "Signature"}

\* C21: getSignaturePacket returns a non-nil error and no packet whenever
\* the bytes parse to a packet that is not a signature packet, and it
\* returns a nil error only together with a non-nil signature packet.
C21_NoPacketMeansError ==
  (fn = "getSignaturePacket" /\ ret.done)
  => /\ ParsesToOtherPacket(msg.sig) => (ret.err # NoErr /\ ret.reader = Nil)
     /\ ret.err = NoErr => (ret.reader # Nil /\ ret.reader.kind = "Signature")

====
